---- MODULE Spec2Model ----
(***************************************************************************)
(* Model of the OFAC crypto wallet screener (src/main.py): the in-memory   *)
(* store (sanctioned_data, last_updated, is_loading, load_error), the      *)
(* refresh function download_and_parse_ofac run by the periodic loop and   *)
(* by on-demand background tasks, and the readers check_wallet and         *)
(* manual_refresh.  Every statement that reads or writes a module global   *)
(* is one step, since the threads running these functions may be switched  *)
(* between any two of them.                                                *)
(***************************************************************************)
EXTENDS Integers, Sequences, FiniteSets, TLC

(***************************************************************************)
(* Bounds of the model.                                                    *)
(***************************************************************************)
\* number of background-task slots for on-demand refreshes
NumTasks == 1

\* the most identifiers under one <idList> of the documents the extraction is applied to
MaxIds == 2

\* number of successful publishes a behaviour may contain
MaxClock == 2

(***************************************************************************)
(* Strings: str.strip(), str.lower(), the `in` substring test, " ".join.   *)
(***************************************************************************)
UpperChars == "ABCDEFGHIJKLMNOPQRSTUVWXYZ"
LowerChars == "abcdefghijklmnopqrstuvwxyz"

IsSpace(c) == c = " "

RECURSIVE LStrip(_)
LStrip(s) ==
  IF Len(s) = 0 THEN s
  ELSE IF IsSpace(SubSeq(s, 1, 1)) THEN LStrip(SubSeq(s, 2, Len(s)))
  ELSE s

RECURSIVE RStrip(_)
RStrip(s) ==
  IF Len(s) = 0 THEN s
  ELSE IF IsSpace(SubSeq(s, Len(s), Len(s))) THEN RStrip(SubSeq(s, 1, Len(s) - 1))
  ELSE s

Strip(s) == RStrip(LStrip(s))

LowerChar(c) ==
  IF \E i \in 1..26 : SubSeq(UpperChars, i, i) = c
  THEN LET i == CHOOSE j \in 1..26 : SubSeq(UpperChars, j, j) = c
       IN SubSeq(LowerChars, i, i)
  ELSE c

RECURSIVE Lower(_)
Lower(s) ==
  IF Len(s) = 0 THEN s
  ELSE LowerChar(SubSeq(s, 1, 1)) \o Lower(SubSeq(s, 2, Len(s)))

Contains(needle, s) ==
  \E i \in 1..(Len(s) - Len(needle) + 1) : SubSeq(s, i, i + Len(needle) - 1) = needle

RECURSIVE Join(_)
Join(parts) ==
  IF Len(parts) = 0 THEN ""
  ELSE IF Len(parts) = 1 THEN parts[1]
  ELSE parts[1] \o " " \o Join(Tail(parts))

(***************************************************************************)
(* Python values: None, the empty dict, dict.get, dict item assignment.    *)
(***************************************************************************)
None == "None"
\* an XML child element that is not there (Element.find returns None)
Absent == "<absent>"

\* the time value of last_updated = None
NoTime == 0
\* None where a match record {entity, currency_type} could stand
NoMatch == [entity |-> None, currency_type |-> None]

EmptyDict == [k \in {} |-> NoMatch]

DictGet(d, k) == IF k \in DOMAIN d THEN d[k] ELSE NoMatch

\* d.setdefault(k, v): an existing key keeps its value
DictSetKeepFirst(d, k, v) == [x \in (DOMAIN d) \cup {k} |-> IF x \in DOMAIN d THEN d[x] ELSE v]

\* d[k] = v
DictSet(d, k, v) == [x \in (DOMAIN d) \cup {k} |-> IF x = k THEN v ELSE d[x]]

DictLen(d) == Cardinality(DOMAIN d)

(***************************************************************************)
(* The downloaded document.  A well-formed document is the sequence of its *)
(* sdnEntry elements in document order; an entry has firstName, lastName   *)
(* (Absent, or the element's text, "" for no text) and, when hasIdList,    *)
(* the sequence idList of its id elements, each with idType and idNumber.  *)
(* Bytes that are not well-formed XML have no entries.                     *)
(***************************************************************************)
Malformed == [wellformed |-> FALSE, entries |-> << >>]

DCA == "Digital Currency Address"

DocA ==
  [wellformed |-> TRUE, entries |-> <<
     [firstName |-> Absent, lastName |-> "Org X",
      hasIdList |-> TRUE,
      idList |-> << [idType |-> "Passport", idNumber |-> "P1"],
                    [idType |-> "Digital Currency Address - XBT", idNumber |-> " 1A2b "] >>],
     [firstName |-> "Jo ", lastName |-> "Doe",
      hasIdList |-> TRUE,
      idList |-> << [idType |-> "Digital Currency Address - ETH", idNumber |-> "  "],
                    [idType |-> " Digital Currency Address - ETH ", idNumber |-> "0xAb"],
                    [idType |-> "Digital Currency Address - ETH", idNumber |-> Absent] >>],
     [firstName |-> Absent, lastName |-> Absent, hasIdList |-> FALSE, idList |-> << >>],
     [firstName |-> Absent, lastName |-> "Org Y",
      hasIdList |-> TRUE,
      idList |-> << [idType |-> "Digital Currency Address - XBT", idNumber |-> "1a2B"] >>] >>]

DocNone ==
  [wellformed |-> TRUE, entries |-> <<
     [firstName |-> "", lastName |-> "",
      hasIdList |-> TRUE,
      idList |-> << [idType |-> "Passport", idNumber |-> "0xAb"],
                    [idType |-> "digital currency address - ETH", idNumber |-> "0xCd"] >>] >>]

Docs == {DocA, DocNone}

\* what requests.get can hand back as response.content
Contents == Docs \cup {Malformed}

(***************************************************************************)
(* Lines 98-133: the extraction loop that builds new_data.                 *)
(***************************************************************************)
EntityName(entry) ==
  LET fnPart == IF entry.firstName # Absent /\ entry.firstName # ""
                THEN << Strip(entry.firstName) >> ELSE << >>
      lnPart == IF entry.lastName # Absent /\ entry.lastName # ""
                THEN << Strip(entry.lastName) >> ELSE << >>
      joined == Join(fnPart \o lnPart)
  IN IF joined = "" THEN "Unknown Entity" ELSE joined

\* line 128 with "and id_number" for "and id_number.strip()"
QualifiesUntrimmed(id) ==
  /\ id.idType # Absent
  /\ id.idNumber # Absent
  /\ Contains(DCA, id.idType)
  /\ id.idNumber # ""

\* lines 120 and 128: both elements present, and the condition of line 128
Qualifies(id) ==
  /\ id.idType # Absent
  /\ id.idNumber # Absent
  /\ Contains(DCA, id.idType)
  /\ Strip(id.idNumber) # ""

RECURSIVE AddIds(_, _, _)
AddIds(data, entity, ids) ==
  IF Len(ids) = 0 THEN data
  ELSE LET id == Head(ids)
           next == IF Qualifies(id)
                   THEN DictSet(data, Lower(Strip(id.idNumber)),
                                [entity |-> entity, currency_type |-> Strip(id.idType)])
                   ELSE data
       IN AddIds(next, entity, Tail(ids))

RECURSIVE AddEntries(_, _)
AddEntries(data, entries) ==
  IF Len(entries) = 0 THEN data
  ELSE LET entry == Head(entries)
           next == IF ~entry.hasIdList THEN data
                   ELSE AddIds(data, EntityName(entry), entry.idList)
       IN AddEntries(next, Tail(entries))

\* the (address, entity, label) triples of one entry, in the order of its idList:
\* id_number as written, entity_name, and id_type.strip()
EntryTriples(entry) ==
  IF ~entry.hasIdList THEN << >>
  ELSE LET ids == SelectSeq(entry.idList, Qualifies)
       IN [i \in 1..Len(ids) |->
             [address |-> ids[i].idNumber, entity |-> EntityName(entry),
              label |-> Strip(ids[i].idType)]]

\* the triples of the entries, in document order
RECURSIVE Triples(_)
Triples(entries) ==
  IF Len(entries) = 0 THEN << >>
  ELSE EntryTriples(Head(entries)) \o Triples(Tail(entries))

BuildSnapshot(doc) == AddEntries(EmptyDict, doc.entries)

\* new_data for each document a download can deliver, computed once
Built == [doc \in Docs |-> BuildSnapshot(doc)]

(***************************************************************************)
(* Threads.  Loop is the thread of background_refresh_loop; a task slot  *)
(* is a background task added by manual_refresh.  Each runs                *)
(* download_and_parse_ofac; pc is the line it is about to execute, "idle"  *)
(* when it is not inside the function (the loop is in time.sleep, the slot *)
(* holds no task).                                                         *)
(***************************************************************************)
Tasks == 1..NumTasks
Loop == 0
Procs == {Loop} \cup Tasks

\* lines of download_and_parse_ofac after is_loading = True and up to the finally clause
CycleLines == {"l83", "l87", "l91", "l135", "l136", "l140", "l143", "l146", "l149"}

\* the addresses the /check endpoint is called with
Addrs == {" 1A2B ", "0xCD", "  "}

MsgDownload == "Download failed: timeout"
MsgParse == "XML parse error: syntax error"
MsgUnexpected == "Unexpected error: failure"
MsgAlready == "Already refreshing. Check /status for progress."
MsgStarted == "Refresh started. Check /status in 1-2 minutes."
DetailLoading == "Sanctions list is still loading"
DetailNotLoaded == "Sanctions list has not loaded yet"

VARIABLES
  sanctioned_data,  \* the published dict: address -> {entity, currency_type}
  last_updated,     \* NoTime, or the time of the last line-136 assignment
  is_loading,       \* the flag tested at line 78
  load_error,       \* None, or the message of the last failure
  clock,            \* datetime.now(): the number of timestamps handed out
  pc,               \* pc[p]: where thread p is in download_and_parse_ofac
  content,          \* content[p]: response.content of p's download
  new_data,         \* new_data[p]: the dict p has built
  exc,              \* exc[p]: the exception p's try block raised, None if none
  pre,              \* pre[p]: sanctioned_data and last_updated when p passed line 78
  req,              \* the /check request being served and its response
  refresh_msg,      \* the message of the last /refresh response
  hist,             \* which attempt fetched before which, and whose data is published
  probe             \* the arguments and results of a function applied on its own

vars == << sanctioned_data, last_updated, is_loading, load_error, clock,
           pc, content, new_data, exc, pre, req, refresh_msg, hist, probe >>

\* the variables that are not part of the program's state
aux == << hist, probe >>

globals == << sanctioned_data, last_updated, is_loading, load_error >>

\* pre[p] of a thread that is not past line 78
NoPre == [snap |-> EmptyDict, lu |-> NoTime]

NoReq == [pc |-> "idle", address |-> None, hit |-> NoMatch, lu |-> NoTime,
          total |-> -1, status |-> 0, detail |-> None,
          state |-> None, error |-> None]

InitProgram ==
  /\ sanctioned_data = EmptyDict
  /\ last_updated = NoTime
  /\ is_loading = FALSE
  /\ load_error = None
  /\ clock = 0
  /\ pc = [p \in Procs |-> IF p = Loop THEN "l78" ELSE "idle"]
  /\ content = [p \in Procs |-> Malformed]
  /\ new_data = [p \in Procs |-> EmptyDict]
  /\ exc = [p \in Procs |-> None]
  /\ pre = [p \in Procs |-> NoPre]
  /\ req = NoReq
  /\ refresh_msg = None

\* hist before any attempt: nothing fetched, nothing published
NoHist == [before |-> [p \in Procs |-> {}], stale |-> [p \in Procs |-> FALSE],
           data_by |-> -1, synced |-> TRUE]

\* probe when no function is applied on its own
NoProbe == [kind |-> "none"]

Init == InitProgram /\ hist = NoHist /\ probe = NoProbe

InFlight == Cardinality({p \in Procs : pc[p] # "idle"})

\* every attempt that starts can still publish with a timestamp of at most MaxClock
MayStart == clock + InFlight < MaxClock

(***************************************************************************)
(* download_and_parse_ofac, lines 76-149.                                  *)
(***************************************************************************)
\* the test of line 78 moved inside the try block: the return runs the finally clause
GateInsideTry(p) ==
  /\ pc[p] = "l78"
  /\ pc' = [pc EXCEPT ![p] = IF is_loading THEN "l149" ELSE "l82"]
  /\ UNCHANGED << globals, clock, content, new_data, exc, pre, req, refresh_msg, aux >>

\* line 78-80: if is_loading: return
Gate(p) ==
  /\ pc[p] = "l78"
  /\ pc' = [pc EXCEPT ![p] = IF is_loading THEN "idle" ELSE "l82"]
  /\ UNCHANGED << globals, clock, content, new_data, exc, pre, req, refresh_msg, aux >>

\* Gate(p), and pre[p] records what is published as p passes the test
GateRecording(p) ==
  /\ pc[p] = "l78"
  /\ pc' = [pc EXCEPT ![p] = IF is_loading THEN "idle" ELSE "l82"]
  /\ pre' = IF is_loading THEN pre
            ELSE [pre EXCEPT ![p] = [snap |-> sanctioned_data, lu |-> last_updated]]
  /\ UNCHANGED << globals, clock, content, new_data, exc, req, refresh_msg, aux >>

\* line 82: is_loading = True
SetLoading(p) ==
  /\ pc[p] = "l82"
  /\ is_loading' = TRUE
  /\ pc' = [pc EXCEPT ![p] = "l83"]
  /\ UNCHANGED << sanctioned_data, last_updated, load_error, clock,
                  content, new_data, exc, pre, req, refresh_msg, aux >>

\* line 83: load_error = None
ClearError(p) ==
  /\ pc[p] = "l83"
  /\ load_error' = None
  /\ pc' = [pc EXCEPT ![p] = "l87"]
  /\ UNCHANGED << sanctioned_data, last_updated, is_loading, clock,
                  content, new_data, exc, pre, req, refresh_msg, aux >>

\* lines 87-88: requests.get and raise_for_status
Fetch(p) ==
  /\ pc[p] = "l87"
  /\ \/ /\ exc' = [exc EXCEPT ![p] = "RequestException"]
        /\ pc' = [pc EXCEPT ![p] = "l140"]
        /\ content' = content
     \/ \E c \in Contents :
          /\ content' = [content EXCEPT ![p] = c]
          /\ pc' = [pc EXCEPT ![p] = "l91"]
          /\ exc' = exc
  /\ UNCHANGED << globals, clock, new_data, pre, req, refresh_msg, aux >>

\* lines 91-133: ET.fromstring and the extraction loop
Parse(p) ==
  /\ pc[p] = "l91"
  /\ content' = [content EXCEPT ![p] = Malformed]
  /\ \/ /\ content[p] = Malformed
        /\ exc' = [exc EXCEPT ![p] = "ParseError"]
        /\ pc' = [pc EXCEPT ![p] = "l143"]
        /\ new_data' = new_data
     \/ /\ content[p] # Malformed
        /\ exc' = [exc EXCEPT ![p] = "Exception"]
        /\ pc' = [pc EXCEPT ![p] = "l146"]
        /\ new_data' = new_data
     \/ /\ content[p] # Malformed
        /\ new_data' = [new_data EXCEPT ![p] = Built[content[p]]]
        /\ pc' = [pc EXCEPT ![p] = "l135"]
        /\ exc' = exc
  /\ UNCHANGED << globals, clock, pre, req, refresh_msg, aux >>

\* line 135: sanctioned_data = new_data
Publish(p) ==
  /\ pc[p] = "l135"
  /\ sanctioned_data' = new_data[p]
  /\ new_data' = [new_data EXCEPT ![p] = EmptyDict]
  /\ pc' = [pc EXCEPT ![p] = "l136"]
  /\ UNCHANGED << last_updated, is_loading, load_error, clock,
                  content, exc, pre, req, refresh_msg, aux >>

\* line 136: last_updated = datetime.now(timezone.utc).isoformat()
Stamp(p) ==
  /\ pc[p] = "l136"
  /\ clock' = clock + 1
  /\ last_updated' = clock + 1
  /\ pc' = [pc EXCEPT ![p] = "l149"]
  /\ UNCHANGED << sanctioned_data, is_loading, load_error,
                  content, new_data, exc, pre, req, refresh_msg, aux >>

\* the messages of lines 140 and 143 exchanged
ErrorMessageExchanged(line) ==
  CASE line = "l140" -> MsgParse
    [] line = "l143" -> MsgDownload
    [] line = "l146" -> MsgUnexpected

\* the message each except clause records (lines 140, 143, 146)
ErrorMessage(line) ==
  CASE line = "l140" -> MsgDownload
    [] line = "l143" -> MsgParse
    [] line = "l146" -> MsgUnexpected

\* the except clauses without lines 145-147: any other exception runs the
\* finally clause and leaves download_and_parse_ofac, and the thread, raised
ExceptWithoutCatchAll(p) ==
  /\ pc[p] \in {"l140", "l143", "l146"}
  /\ load_error' = IF pc[p] = "l146" THEN load_error ELSE ErrorMessage(pc[p])
  /\ is_loading' = IF pc[p] = "l146" THEN FALSE ELSE is_loading
  /\ pc' = [pc EXCEPT ![p] = IF pc[p] = "l146" THEN "raised" ELSE "l149"]
  /\ UNCHANGED << sanctioned_data, last_updated, clock,
                  content, new_data, exc, pre, req, refresh_msg, aux >>

\* lines 139-147: the except clauses
Except(p) ==
  /\ pc[p] \in {"l140", "l143", "l146"}
  /\ load_error' = ErrorMessage(pc[p])
  /\ pc' = [pc EXCEPT ![p] = "l149"]
  /\ UNCHANGED << sanctioned_data, last_updated, is_loading, clock,
                  content, new_data, exc, pre, req, refresh_msg, aux >>

\* Finally with the reset moved to the end of the try block: a failed attempt keeps the flag
FinallyOnSuccessOnly(p) ==
  /\ pc[p] = "l149"
  /\ is_loading' = IF exc[p] = None THEN FALSE ELSE is_loading
  /\ pc' = [pc EXCEPT ![p] = "idle"]
  /\ exc' = [exc EXCEPT ![p] = None]
  /\ UNCHANGED << sanctioned_data, last_updated, load_error, clock,
                  content, new_data, pre, req, refresh_msg, aux >>

\* lines 148-149: finally: is_loading = False, and the return
Finally(p) ==
  /\ pc[p] = "l149"
  /\ is_loading' = FALSE
  /\ pc' = [pc EXCEPT ![p] = "idle"]
  /\ exc' = [exc EXCEPT ![p] = None]
  /\ UNCHANGED << sanctioned_data, last_updated, load_error, clock,
                  content, new_data, pre, req, refresh_msg, aux >>

\* Finally(p), and pre[p] is forgotten
FinallyRecording(p) ==
  /\ pc[p] = "l149"
  /\ is_loading' = FALSE
  /\ pc' = [pc EXCEPT ![p] = "idle"]
  /\ exc' = [exc EXCEPT ![p] = None]
  /\ pre' = [pre EXCEPT ![p] = NoPre]
  /\ UNCHANGED << sanctioned_data, last_updated, load_error, clock,
                  content, new_data, req, refresh_msg, aux >>

\* one step of thread p inside download_and_parse_ofac
Attempt(p) ==
  \/ Gate(p) \/ SetLoading(p) \/ ClearError(p) \/ Fetch(p) \/ Parse(p)
  \/ Publish(p) \/ Stamp(p) \/ Except(p) \/ Finally(p)

(***************************************************************************)
(* background_refresh_loop, lines 152-157: time.sleep returns and the loop *)
(* calls download_and_parse_ofac again.                                    *)
(***************************************************************************)
LoopWake ==
  /\ pc[Loop] = "idle"
  /\ MayStart
  /\ pc' = [pc EXCEPT ![Loop] = "l78"]
  /\ UNCHANGED << globals, clock, content, new_data, exc, pre, req, refresh_msg, aux >>

(***************************************************************************)
(* manual_refresh, lines 235-242.  The added task runs after the response. *)
(***************************************************************************)
\* manual_refresh without the test of line 239: a task is added whatever is_loading is
ManualRefreshUnguarded ==
  /\ MayStart
  /\ \E t \in Tasks :
       /\ pc[t] = "idle"
       /\ \A u \in Tasks : u < t => pc[u] # "idle"
       /\ pc' = [pc EXCEPT ![t] = "l78"]
  /\ refresh_msg' = MsgStarted
  /\ UNCHANGED << globals, clock, content, new_data, exc, pre, req, aux >>

\* manual_refresh without line 241: "Refresh started..." is answered and no task added
ManualRefreshWithoutTask ==
  IF is_loading
  THEN /\ refresh_msg' = MsgAlready
       /\ UNCHANGED << globals, clock, pc, content, new_data, exc, pre, req, aux >>
  ELSE /\ MayStart
       /\ \E t \in Tasks : pc[t] = "idle"
       /\ refresh_msg' = MsgStarted
       /\ UNCHANGED << globals, clock, pc, content, new_data, exc, pre, req, aux >>

ManualRefresh ==
  IF is_loading
  THEN /\ refresh_msg' = MsgAlready
       /\ UNCHANGED << globals, clock, pc, content, new_data, exc, pre, req, aux >>
  ELSE /\ MayStart
       /\ \E t \in Tasks :
            /\ pc[t] = "idle"
            /\ \A u \in Tasks : u < t => pc[u] # "idle"
            /\ pc' = [pc EXCEPT ![t] = "l78"]
       /\ refresh_msg' = MsgStarted
       /\ UNCHANGED << globals, clock, content, new_data, exc, pre, req, aux >>

(***************************************************************************)
(* check_wallet, lines 189-219.                                            *)
(***************************************************************************)
\* lines 199-201: strip the address, 400 when nothing is left
CheckCall(a) ==
  /\ req.pc \in {"idle", "done"}
  /\ IF Strip(a) = ""
     THEN req' = [NoReq EXCEPT !.pc = "done", !.address = Strip(a), !.status = 400]
     ELSE req' = [NoReq EXCEPT !.pc = "c203", !.address = Strip(a)]
  /\ UNCHANGED << globals, clock, pc, content, new_data, exc, pre, refresh_msg, aux >>

\* line 203 also answering "not ready" while a refresh runs
CheckEmptyOrLoading ==
  /\ req.pc = "c203"
  /\ req' = [req EXCEPT !.pc = IF DictLen(sanctioned_data) = 0 \/ is_loading
                                THEN "c205" ELSE "c210"]
  /\ UNCHANGED << globals, clock, pc, content, new_data, exc, pre, refresh_msg, aux >>

\* line 203: if not sanctioned_data
CheckEmpty ==
  /\ req.pc = "c203"
  /\ req' = [req EXCEPT !.pc = IF DictLen(sanctioned_data) = 0 THEN "c205" ELSE "c210"]
  /\ UNCHANGED << globals, clock, pc, content, new_data, exc, pre, refresh_msg, aux >>

\* lines 204-207: the 503 and its message
CheckNotReady ==
  /\ req.pc = "c205"
  /\ req' = [req EXCEPT !.pc = "done", !.status = 503,
                        !.detail = IF is_loading THEN DetailLoading ELSE DetailNotLoaded]
  /\ UNCHANGED << globals, clock, pc, content, new_data, exc, pre, refresh_msg, aux >>

\* lines 209-210: hit = sanctioned_data.get(address.lower())
\* line 209 without .lower()
CleanAddressNoLower(address) == address

\* line 209: clean_address = address.lower()
CleanAddress(address) == Lower(address)

CheckGet ==
  /\ req.pc = "c210"
  /\ req' = [req EXCEPT !.pc = "c217", !.hit = DictGet(sanctioned_data, CleanAddress(req.address))]
  /\ UNCHANGED << globals, clock, pc, content, new_data, exc, pre, refresh_msg, aux >>

\* line 217: "list_last_updated": last_updated
CheckTime ==
  /\ req.pc = "c217"
  /\ req' = [req EXCEPT !.pc = "c218", !.lu = last_updated]
  /\ UNCHANGED << globals, clock, pc, content, new_data, exc, pre, refresh_msg, aux >>

\* line 218: "total_addresses_in_list": len(sanctioned_data), and the return
CheckTotal ==
  /\ req.pc = "c218"
  /\ req' = [req EXCEPT !.pc = "done", !.status = 200, !.total = DictLen(sanctioned_data)]
  /\ UNCHANGED << globals, clock, pc, content, new_data, exc, pre, refresh_msg, aux >>

Check ==
  \/ \E a \in Addrs : CheckCall(a)
  \/ CheckEmpty \/ CheckNotReady \/ CheckGet \/ CheckTime \/ CheckTotal

\* lines 199-219 run against one cache state: the status code, and for a 200
\* the record found (NoMatch when result is None, i.e. is_sanctioned false)
CheckWallet(a, data) ==
  LET address == Strip(a)
  IN IF address = "" THEN [status |-> 400, hit |-> NoMatch]
     ELSE IF DictLen(data) = 0 THEN [status |-> 503, hit |-> NoMatch]
     ELSE [status |-> 200, hit |-> DictGet(data, CleanAddress(address))]

(***************************************************************************)
(* status, lines 222-232.  The dict of the response is built entry by      *)
(* entry, each entry reading the globals when it is evaluated; the request *)
(* is served by the thread that serves /check, one request at a time.      *)
(***************************************************************************)
StatusCall ==
  /\ req.pc \in {"idle", "done"}
  /\ req' = [NoReq EXCEPT !.pc = "s227"]
  /\ UNCHANGED << globals, clock, pc, content, new_data, exc, pre, refresh_msg, aux >>

\* line 227 with the test of is_loading left out
StatusWithoutLoading ==
  /\ req.pc = "s227"
  /\ req' = [req EXCEPT !.pc = "s227d"]
  /\ UNCHANGED << globals, clock, pc, content, new_data, exc, pre, refresh_msg, aux >>

\* line 227: "loading" if is_loading else ...
StatusLoading ==
  /\ req.pc = "s227"
  /\ req' = IF is_loading THEN [req EXCEPT !.pc = "s228", !.state = "loading"]
            ELSE [req EXCEPT !.pc = "s227d"]
  /\ UNCHANGED << globals, clock, pc, content, new_data, exc, pre, refresh_msg, aux >>

\* line 227: ... ("ready" if sanctioned_data else "not_loaded")
StatusData ==
  /\ req.pc = "s227d"
  /\ req' = [req EXCEPT !.pc = "s228",
                        !.state = IF DictLen(sanctioned_data) # 0 THEN "ready" ELSE "not_loaded"]
  /\ UNCHANGED << globals, clock, pc, content, new_data, exc, pre, refresh_msg, aux >>

\* line 228: "total_addresses": len(sanctioned_data)
StatusTotal ==
  /\ req.pc = "s228"
  /\ req' = [req EXCEPT !.pc = "s229", !.total = DictLen(sanctioned_data)]
  /\ UNCHANGED << globals, clock, pc, content, new_data, exc, pre, refresh_msg, aux >>

\* line 229: "last_updated": last_updated
StatusTime ==
  /\ req.pc = "s229"
  /\ req' = [req EXCEPT !.pc = "s230", !.lu = last_updated]
  /\ UNCHANGED << globals, clock, pc, content, new_data, exc, pre, refresh_msg, aux >>

\* line 230: "last_error": load_error, and the return
StatusError ==
  /\ req.pc = "s230"
  /\ req' = [req EXCEPT !.pc = "done", !.status = 200, !.error = load_error]
  /\ UNCHANGED << globals, clock, pc, content, new_data, exc, pre, refresh_msg, aux >>

Status ==
  \/ StatusCall
  \/ StatusLoading \/ StatusData \/ StatusTotal \/ StatusTime \/ StatusError

Next ==
  \/ \E p \in Procs : Attempt(p)
  \/ LoopWake
  \/ ManualRefresh
  \/ Check

Spec == Init /\ [][Next]_vars

(***************************************************************************)
(* The refresh side alone: the periodic loop and the on-demand tasks, with *)
(* the threads inside download_and_parse_ofac scheduled fairly (requests   *)
(* .get returns or raises within its timeout, the other statements do not  *)
(* block).                                                                 *)
(***************************************************************************)
RefreshNext ==
  \/ \E p \in Procs : Attempt(p)
  \/ LoopWake
  \/ ManualRefresh

RefreshSpec == Init /\ [][RefreshNext]_vars

FairSpec == Init /\ [][RefreshNext]_vars /\ \A p \in Procs : WF_vars(Attempt(p))

(***************************************************************************)
(* The refresh side with pre[p] recorded for the length of each attempt.   *)
(***************************************************************************)
AttemptRecording(p) ==
  \/ GateRecording(p) \/ SetLoading(p) \/ ClearError(p) \/ Fetch(p) \/ Parse(p)
  \/ Publish(p) \/ Stamp(p) \/ Except(p) \/ FinallyRecording(p)

RecordingNext ==
  \/ \E p \in Procs : AttemptRecording(p)
  \/ LoopWake
  \/ ManualRefresh

RecordingSpec == Init /\ [][RecordingNext]_vars

(***************************************************************************)
(* The refresh side with /status requests in place of /check requests.     *)
(***************************************************************************)
StatusNext ==
  \/ \E p \in Procs : Attempt(p)
  \/ LoopWake
  \/ ManualRefresh
  \/ Status

StatusSpec == Init /\ [][StatusNext]_vars

(***************************************************************************)
(* The refresh side with hist recorded.  hist.before[p] is the set of      *)
(* threads whose current attempt had fetched its document, and not yet     *)
(* published or failed, when p's attempt fetched; hist.stale[p] says that  *)
(* an attempt that fetched after p's has published since; hist.data_by is  *)
(* the thread that assigned sanctioned_data last; hist.synced says that    *)
(* last_updated was assigned by the attempt that assigned sanctioned_data. *)
(***************************************************************************)
\* thread p's attempt no longer holds a fetched, unpublished document
Forget(before, p) == [q \in Procs |-> before[q] \ {p}]

\* Fetch(p), and hist records who had fetched before p
FetchOrdered(p) ==
  /\ pc[p] = "l87"
  /\ \/ /\ exc' = [exc EXCEPT ![p] = "RequestException"]
        /\ pc' = [pc EXCEPT ![p] = "l140"]
        /\ content' = content
        /\ hist' = hist
     \/ \E c \in Contents :
          /\ content' = [content EXCEPT ![p] = c]
          /\ pc' = [pc EXCEPT ![p] = "l91"]
          /\ exc' = exc
          /\ hist' = [hist EXCEPT
                        !.before[p] = {q \in Procs \ {p} : pc[q] \in {"l91", "l135"}},
                        !.stale[p] = FALSE]
  /\ UNCHANGED << globals, clock, new_data, pre, req, refresh_msg, probe >>

\* Parse(p), and a failed attempt's document is forgotten
ParseOrdered(p) ==
  /\ pc[p] = "l91"
  /\ content' = [content EXCEPT ![p] = Malformed]
  /\ \/ /\ content[p] = Malformed
        /\ exc' = [exc EXCEPT ![p] = "ParseError"]
        /\ pc' = [pc EXCEPT ![p] = "l143"]
        /\ new_data' = new_data
        /\ hist' = [hist EXCEPT !.before = Forget(hist.before, p), !.stale[p] = FALSE]
     \/ /\ content[p] # Malformed
        /\ exc' = [exc EXCEPT ![p] = "Exception"]
        /\ pc' = [pc EXCEPT ![p] = "l146"]
        /\ new_data' = new_data
        /\ hist' = [hist EXCEPT !.before = Forget(hist.before, p), !.stale[p] = FALSE]
     \/ /\ content[p] # Malformed
        /\ new_data' = [new_data EXCEPT ![p] = Built[content[p]]]
        /\ pc' = [pc EXCEPT ![p] = "l135"]
        /\ exc' = exc
        /\ hist' = hist
  /\ UNCHANGED << globals, clock, pre, req, refresh_msg, probe >>

\* Publish(p), and the attempts that fetched before p's and have not published are stale
PublishOrdered(p) ==
  /\ pc[p] = "l135"
  /\ sanctioned_data' = new_data[p]
  /\ new_data' = [new_data EXCEPT ![p] = EmptyDict]
  /\ pc' = [pc EXCEPT ![p] = "l136"]
  /\ hist' = [before |-> Forget([hist.before EXCEPT ![p] = {}], p),
              stale |-> [q \in Procs |-> IF q = p THEN FALSE
                                         ELSE hist.stale[q] \/ q \in hist.before[p]],
              data_by |-> p,
              synced |-> FALSE]
  /\ UNCHANGED << last_updated, is_loading, load_error, clock,
                  content, exc, pre, req, refresh_msg, probe >>

\* Stamp(p), and the timestamp is the snapshot's when p assigned sanctioned_data last
StampOrdered(p) ==
  /\ pc[p] = "l136"
  /\ clock' = clock + 1
  /\ last_updated' = clock + 1
  /\ pc' = [pc EXCEPT ![p] = "l149"]
  /\ hist' = [hist EXCEPT !.synced = (hist.data_by = p)]
  /\ UNCHANGED << sanctioned_data, is_loading, load_error,
                  content, new_data, exc, pre, req, refresh_msg, probe >>

AttemptOrdered(p) ==
  \/ Gate(p) \/ SetLoading(p) \/ ClearError(p) \/ FetchOrdered(p) \/ ParseOrdered(p)
  \/ PublishOrdered(p) \/ StampOrdered(p) \/ Except(p) \/ Finally(p)

OrderNext ==
  \/ \E p \in Procs : AttemptOrdered(p)
  \/ LoopWake
  \/ ManualRefresh

OrderSpec == Init /\ [][OrderNext]_vars

(***************************************************************************)
(* The lookup and the extraction applied on their own.  probe holds the    *)
(* arguments: two address strings and a cache for check_wallet, a document *)
(* for the extraction loop.  The program's variables stay as constructed.  *)
(***************************************************************************)
\* address strings the /check endpoint can be called with
AddrStrings == {" 1A2B ", "1a2b", "1A2b", "0xAB ", "0xab", "0xCD", " ", ""}

\* caches the lookup can find: never loaded, or built from a document
Caches == {EmptyDict} \cup {Built[doc] : doc \in Docs}

\* sequences over S of length at most n
SeqsUpTo(S, n) == UNION {[1..k -> S] : k \in 0..n}

\* <idType, idNumber> pairs as they occur under <idList>
TestIds ==
  { [idType |-> "Digital Currency Address - XBT", idNumber |-> " 1A2b "],
    [idType |-> " Digital Currency Address - ETH ", idNumber |-> "1a2B"],
    [idType |-> "Digital Currency Address - ETH", idNumber |-> "0xAb"],
    [idType |-> "Passport", idNumber |-> "0xAb"],
    [idType |-> "Digital Currency Address - ETH", idNumber |-> "  "],
    [idType |-> "Digital Currency Address - ETH", idNumber |-> Absent] }

\* the <sdnEntry> elements named lastName, with each list of at most n
\* identifiers, or with no <idList>
TestEntries(lastName, n) ==
  { [firstName |-> Absent, lastName |-> lastName, hasIdList |-> TRUE, idList |-> ids] :
      ids \in SeqsUpTo(TestIds, n) }
  \cup { [firstName |-> Absent, lastName |-> lastName, hasIdList |-> FALSE, idList |-> << >>] }

\* well-formed documents of two entries, the second with at most one identifier
TestDocs ==
  { [wellformed |-> TRUE, entries |-> << e1, e2 >>] :
      e1 \in TestEntries("Org X", MaxIds), e2 \in TestEntries("Org Y", 1) }

NoResp == [status |-> 0, hit |-> NoMatch]

CheckProbes ==
  { [kind |-> "check", a |-> a, b |-> b, data |-> data, doc |-> Malformed,
     ra |-> NoResp, rb |-> NoResp, out |-> EmptyDict, done |-> FALSE] :
      a \in AddrStrings, b \in AddrStrings, data \in Caches }

BuildProbes ==
  { [kind |-> "build", a |-> None, b |-> None, data |-> EmptyDict, doc |-> doc,
     ra |-> NoResp, rb |-> NoResp, out |-> EmptyDict, done |-> FALSE] :
      doc \in TestDocs }

FunctionInit == InitProgram /\ hist = NoHist /\ probe \in CheckProbes \cup BuildProbes

\* check_wallet called with each of the two address strings
ApplyCheck ==
  /\ probe.kind = "check" /\ ~probe.done
  /\ probe' = [probe EXCEPT !.ra = CheckWallet(probe.a, probe.data),
                             !.rb = CheckWallet(probe.b, probe.data),
                             !.done = TRUE]
  /\ UNCHANGED << globals, clock, pc, content, new_data, exc, pre, req, refresh_msg, hist >>

\* the extraction loop run over the document
ApplyBuild ==
  /\ probe.kind = "build" /\ ~probe.done
  /\ probe' = [probe EXCEPT !.out = BuildSnapshot(probe.doc), !.done = TRUE]
  /\ UNCHANGED << globals, clock, pc, content, new_data, exc, pre, req, refresh_msg, hist >>

FunctionNext == ApplyCheck \/ ApplyBuild

FunctionSpec == FunctionInit /\ [][FunctionNext]_vars

(***************************************************************************)
(* Properties.                                                             *)
(***************************************************************************)
\* the threads that have executed is_loading = True and not yet the finally clause
InCycle == {p \in Procs : pc[p] \in CycleLines}

\* thread p returns from download_and_parse_ofac in this step
Returns(p) == pc[p] = "l149" /\ pc'[p] = "idle"

\* the /check request takes a step
CheckSteps == req' # req

\* string s starts with prefix
HasPrefix(prefix, s) == Len(s) >= Len(prefix) /\ SubSeq(s, 1, Len(prefix)) = prefix

\* C1: single-flight: at most one attempt at a time is past the gate, in its
\* fetch, parse, build, publish or failure-recording stage.
SingleFlight == Cardinality(InCycle) <= 1

\* C2: last-good-value: when an attempt that failed returns, sanctioned_data
\* and last_updated are what they were when it passed the gate, and
\* load_error holds a message.
FailedAttemptLeavesPublished ==
  [][\A p \in Procs :
       Returns(p) /\ exc[p] # None =>
         /\ sanctioned_data' = pre[p].snap
         /\ last_updated' = pre[p].lu
         /\ load_error' # None]_vars

\* C3: no torn reads: a /check response that carries a result is that of one
\* commit: the snapshot it found non-empty is the one it counted, and the
\* last_updated it reports is set, as it is by every commit that published
\* a snapshot.
CheckResponseOfOneCommit ==
  req.status = 200 => req.total >= 1 /\ req.lu # NoTime

\* C4: is_loading is true in every state in which an attempt is between
\* setting the flag and its finally clause.
LoadingWhileInCycle == InCycle # {} => is_loading

\* C5: while no refresh has completed successfully (last_updated is still
\* unset), the emptiness test of /check sends it to the 503 answer.
NotReadyBeforeFirstSuccess ==
  [][last_updated = NoTime /\ req.pc = "c203" /\ CheckSteps => req'.pc = "c205"]_vars

\* C6: once a refresh has completed successfully and none is running, /check
\* on a non-blank address goes on to the lookup, and the lookup yields the
\* record stored under the lowercased address, or no match.
AnswersAfterSuccess ==
  [][(last_updated # NoTime /\ \A p \in Procs : pc[p] = "idle") =>
       /\ req.pc = "c203" /\ CheckSteps => req'.pc = "c210"
       /\ req.pc = "c210" /\ CheckSteps =>
            req'.hit = DictGet(sanctioned_data, Lower(req.address))]_vars

\* C7: lookup is independent of refresh activity: whatever the refresh
\* threads are doing, a /check in progress can take its next step, its
\* not-ready decision is that of the published dict alone, and its match is
\* the published dict's entry for the lowercased address.
LookupIgnoresRefresh ==
  /\ [](req.pc \in {"c203", "c205", "c210", "c217", "c218"} => ENABLED Check)
  /\ [][/\ req.pc = "c203" /\ CheckSteps =>
             req'.pc = IF DictLen(sanctioned_data) = 0 THEN "c205" ELSE "c210"
        /\ req.pc = "c205" /\ CheckSteps => req'.status = 503 /\ req'.hit = NoMatch
        /\ req.pc = "c210" /\ CheckSteps =>
             req'.hit = DictGet(sanctioned_data, Lower(req.address))]_vars

\* C7 witness: a /check has answered with a match while an attempt that
\* failed is still inside download_and_parse_ofac.
LookupDuringFailedRefresh ==
  /\ req.pc = "done" /\ req.status = 200 /\ req.hit # NoMatch
  /\ \E p \in Procs : pc[p] \in {"l140", "l143", "l146"}

\* C8: every attempt that passes the gate eventually returns with
\* is_loading false.
GrantedAttemptReturns ==
  \A p \in Procs : (pc[p] = "l82") ~> (pc[p] = "idle" /\ ~is_loading)

\* C8 witness: every thread is out of download_and_parse_ofac after an
\* attempt failed with an unexpected error, and the flag is down.
IdleAfterFailure ==
  /\ \A p \in Procs : pc[p] = "idle"
  /\ load_error = MsgUnexpected
  /\ ~is_loading

\* C9: when an attempt that succeeded returns, load_error is None.
NoErrorAfterSuccess ==
  [][\A p \in Procs : Returns(p) /\ exc[p] = None => load_error' = None]_vars

\* C10: a /refresh request that finds is_loading true is answered at once
\* with "Already refreshing" and adds no task: while is_loading is true
\* manual_refresh can always answer, no task slot is filled, and the only
\* answer given is "Already refreshing".
DeclinedRefreshSchedulesNothing ==
  /\ [](is_loading => ENABLED ManualRefresh)
  /\ [][is_loading =>
          /\ \A t \in Tasks : pc[t] = "idle" => pc'[t] = "idle"
          /\ refresh_msg' # refresh_msg => refresh_msg' = MsgAlready]_vars

\* C10 witness: "Already refreshing" has been answered while an attempt runs.
AnsweredAlreadyRefreshing ==
  refresh_msg = MsgAlready /\ is_loading /\ InCycle # {}

\* C11: the lookup normalizes as the snapshot keys are normalized: two address
\* strings whose trimmed, lowercased forms are equal get the same status,
\* the same is_sanctioned and the same match from the same cache.
SameNormalizedSameAnswer ==
  probe.kind = "check" /\ probe.done /\ Lower(Strip(probe.a)) = Lower(Strip(probe.b))
    => probe.ra = probe.rb

\* C11 witness: differently written forms of a listed address both answered with its record
TwoSpellingsOneMatch ==
  /\ probe.kind = "check" /\ probe.done
  /\ probe.a # probe.b /\ Lower(Strip(probe.a)) = Lower(Strip(probe.b))
  /\ probe.ra.status = 200 /\ probe.ra.hit # NoMatch /\ probe.rb.hit = probe.ra.hit

\* C12: last-write-wins build: the snapshot built from a document has exactly
\* one entry per distinct normalized address of its triples, and the entry
\* holds the entity and the label of the last triple, in document order,
\* with that normalized address.
LastWriteWins ==
  probe.kind = "build" /\ probe.done =>
    LET ts == Triples(probe.doc.entries)
        key(i) == Lower(Strip(ts[i].address))
        last(k) == CHOOSE i \in DOMAIN ts :
                     key(i) = k /\ \A j \in DOMAIN ts : key(j) = k => j <= i
    IN /\ DOMAIN probe.out = {key(i) : i \in DOMAIN ts}
       /\ \A k \in DOMAIN probe.out :
            probe.out[k] = [entity |-> ts[last(k)].entity, currency_type |-> ts[last(k)].label]

\* C12 witness: an address listed under both entries, with different labels, stored once
\* with the second entry's entity and label, next to another address
LaterEntryOverwrote ==
  /\ probe.kind = "build" /\ probe.done
  /\ Len(Triples(probe.doc.entries)) = 3
  /\ DOMAIN probe.out = {"1a2b", "0xab"}
  /\ probe.out["1a2b"] = [entity |-> "Org Y", currency_type |-> "Digital Currency Address - ETH"]
  /\ probe.doc.entries[1].idList[1].idType = "Digital Currency Address - XBT"

\* C13: extraction filter: an identifier contributes to the snapshot if and only
\* if its idType contains "Digital Currency Address" and its idNumber is
\* non-empty after trimming; each such identifier contributes exactly one
\* triple, keyed by its normalized idNumber, and no other identifier
\* contributes anything.
OnlyCryptoIdsContribute ==
  probe.kind = "build" /\ probe.done =>
    LET entries == probe.doc.entries
        listed == {ei \in (DOMAIN entries) \X (1..MaxIds) :
                     /\ entries[ei[1]].hasIdList
                     /\ ei[2] \in DOMAIN entries[ei[1]].idList}
        id(ei) == entries[ei[1]].idList[ei[2]]
        crypto == {ei \in listed :
                     /\ id(ei).idType # Absent /\ id(ei).idNumber # Absent
                     /\ Contains("Digital Currency Address", id(ei).idType)
                     /\ Strip(id(ei).idNumber) # ""}
    IN /\ DOMAIN probe.out = {Lower(Strip(id(ei).idNumber)) : ei \in crypto}
       /\ Len(Triples(entries)) = Cardinality(crypto)

\* C13 witness: of a passport number, a blank address and an address under one
\* entry, only the address is in the snapshot
OnlyTheAddressKept ==
  /\ probe.kind = "build" /\ probe.done
  /\ probe.doc.entries[1].idList =
       << [idType |-> "Passport", idNumber |-> "0xAb"],
          [idType |-> "Digital Currency Address - ETH", idNumber |-> "  "] >>
  /\ probe.doc.entries[2].idList =
       << [idType |-> "Digital Currency Address - ETH", idNumber |-> "0xAb"] >>
  /\ DOMAIN probe.out = {"0xab"}

\* C14: a declined attempt is a silent no-op: a thread that finds is_loading
\* true at line 78 returns in that step, leaving sanctioned_data,
\* last_updated and load_error as they are and is_loading true.
DeclinedAttemptIsNoOp ==
  [][\A p \in Procs :
       pc[p] = "l78" /\ is_loading /\ pc'[p] # "l78" =>
         /\ pc'[p] = "idle"
         /\ sanctioned_data' = sanctioned_data
         /\ last_updated' = last_updated
         /\ load_error' = load_error
         /\ is_loading']_vars

\* C14 witness: the task of an on-demand refresh has returned while the loop's
\* attempt is at line 83; nothing was published and no error recorded, so
\* no attempt of the task was granted, and is_loading is still true
DeclinedTaskReturned ==
  /\ pc[Loop] = "l83" /\ is_loading
  /\ \A t \in Tasks : pc[t] = "idle"
  /\ refresh_msg = MsgStarted
  /\ clock = 0 /\ load_error = None /\ DictLen(sanctioned_data) = 0

\* C15: the periodic loop survives every outcome and never overlaps itself: each
\* of its attempts, granted or declined, successful or failed, returns; it
\* is asleep only after its attempt has returned from line 80 or from the
\* finally clause; it calls download_and_parse_ofac only from its sleep; and
\* whenever it is asleep its next attempt can start (within MaxClock).
LoopKeepsCycling ==
  /\ (pc[Loop] # "idle") ~> (pc[Loop] = "idle")
  /\ [][/\ pc[Loop] # "idle" /\ pc'[Loop] = "idle" => pc[Loop] \in {"l78", "l149"}
        /\ pc[Loop] # "l78" /\ pc'[Loop] = "l78" => pc[Loop] = "idle"]_vars
  /\ [](pc[Loop] = "idle" /\ MayStart => ENABLED LoopWake)

\* C15 witness: with no on-demand refresh ever requested, the loop is at line 78
\* again after an attempt of its own failed in parsing
LoopRetriesAfterFailure ==
  /\ pc[Loop] = "l78"
  /\ refresh_msg = None
  /\ load_error = MsgParse /\ ~is_loading

\* C16: each entry of the /status response is the stored value it is read from:
\* the state is "loading" when is_loading is true, otherwise "ready" when
\* sanctioned_data is non-empty and "not_loaded" when it is empty;
\* total_addresses is the number of keys of sanctioned_data; last_updated
\* and last_error are the stored last_updated and load_error.
StatusReportsStore ==
  [][req' # req =>
       /\ req.pc = "s227" /\ is_loading => req'.state = "loading"
       /\ req.pc = "s227" /\ ~is_loading => req'.pc = "s227d"
       /\ req.pc = "s227d" =>
            req'.state = IF sanctioned_data = EmptyDict THEN "not_loaded" ELSE "ready"
       /\ req.pc = "s228" => req'.total = Cardinality(DOMAIN sanctioned_data)
       /\ req.pc = "s229" => req'.lu = last_updated
       /\ req.pc = "s230" => req'.error = load_error /\ req'.state = req.state]_vars

\* C16 witness: a /status response that says "loading" over two published addresses,
\* their timestamp and no error
StatusLoadingOverPublished ==
  /\ req.pc = "done" /\ req.state = "loading"
  /\ req.total = 2 /\ req.lu # NoTime /\ req.error = None

\* C17: the failure message names the stage that failed: an attempt whose fetch
\* raised records a message starting "Download failed", one whose document
\* was malformed "XML parse error", one that raised anything else
\* "Unexpected error"; a message is recorded only by the except clause of
\* an attempt that failed, once, on its way to the finally clause.
FailureMessageNamesStage ==
  [][/\ \A p \in Procs :
          pc[p] \in {"l140", "l143", "l146"} /\ pc'[p] # pc[p] =>
            /\ pc'[p] = "l149" /\ exc'[p] = exc[p]
            /\ exc[p] = "RequestException" => HasPrefix("Download failed", load_error')
            /\ exc[p] = "ParseError" => HasPrefix("XML parse error", load_error')
            /\ exc[p] = "Exception" => HasPrefix("Unexpected error", load_error')
            /\ exc[p] \in {"RequestException", "ParseError", "Exception"}
     /\ load_error' # load_error /\ load_error' # None =>
          \E p \in Procs : pc[p] \in {"l140", "l143", "l146"} /\ pc'[p] = "l149"]_vars

\* C17 witness: an attempt whose fetch raised is in the finally clause with
\* "Download failed: ..." recorded
DownloadFailureRecorded ==
  \E p \in Procs :
    pc[p] = "l149" /\ exc[p] = "RequestException" /\ HasPrefix("Download failed: ", load_error)

\* C18, as stated: the attempt scheduled by a manual_refresh that answered
\* "Refresh started..." is never declined at line 78: it is granted and fetches.
StartedRefreshIsGranted ==
  [][\A t \in Tasks : pc[t] = "l78" /\ pc'[t] # "l78" => pc'[t] = "l82"]_vars

\* C18, amended: manual_refresh answers "Refresh started..." only when it read
\* is_loading false at line 239, and then schedules one attempt; the
\* scheduled attempt passes the gate of line 78 like any other: it is
\* granted when is_loading is still false at its own test, and declined as
\* a no-op when another attempt has set it in between.
StartedRefreshPassesGate ==
  [][/\ \A t \in Tasks :
          /\ pc[t] = "idle" /\ pc'[t] # "idle" =>
               pc'[t] = "l78" /\ ~is_loading /\ refresh_msg' = MsgStarted
          /\ pc[t] = "l78" /\ pc'[t] # "l78" =>
               pc'[t] = IF is_loading THEN "idle" ELSE "l82"
     /\ refresh_msg' = MsgStarted /\ refresh_msg # MsgStarted =>
          ~is_loading /\ \E t \in Tasks : pc[t] = "idle" /\ pc'[t] = "l78"]_vars

\* C18 witness: the attempt of a started on-demand refresh holds the gate and is
\* about to fetch, the loop asleep
StartedTaskFetches ==
  /\ refresh_msg = MsgStarted
  /\ \E t \in Tasks : pc[t] = "l87"
  /\ pc[Loop] = "idle" /\ is_loading

\* C19: /status says "not_loaded" only while no refresh has ever completed
\* successfully, that is, only while last_updated is absent.
NotLoadedOnlyBeforeFirstSuccess ==
  [][req.pc = "s227d" /\ req' # req /\ req'.state = "not_loaded" =>
       last_updated = NoTime]_vars

\* C20: published data never regresses to an older fetch: an attempt does not
\* assign sanctioned_data after an attempt that fetched later than it has
\* assigned it; and whenever no attempt is between its lines 135 and 136,
\* last_updated was assigned by the attempt that assigned sanctioned_data.
PublishedNeverRegresses ==
  /\ [][\A p \in Procs : pc[p] = "l135" /\ pc'[p] = "l136" => ~hist.stale[p]]_vars
  /\ []((\A p \in Procs : pc[p] # "l136") => hist.synced)

====
